---- MODULE Spec2Model ----
(***************************************************************************)
(* Finance-Ninja: the App controller of the chat page (App component).     *)
(* State is the four useState cells of App, the wall clock read by         *)
(* Date.now(), and the calls to getFinancialAdvice that are awaited.       *)
(* Every handler of the component is one action.                           *)
(***************************************************************************)
EXTENDS Integers, Sequences, FiniteSets, TLC

\* ---------------------------------------------------------------- bounds
\* Date.now() ranges over 0..MaxClock.
MaxClock == 1
\* An accepted send is only explored while the transcript, after the send
\* and its answer, stays within MaxMsgs messages.
MaxMsgs == 5
\* The sidebar links that get clicked are the first MaxTopic of Topics.
MaxTopic == 1

\* ----------------------------------------------------------------- types
\* UserProfile = 'student' | 'professional' | 'none'
UserProfile == {"student", "professional", "none"}

\* The profiles the profile selector offers: every UserProfile but the
\* unset sentinel.
Profiles == UserProfile \ {"none"}

\* Role = 'user' | 'model'
Role == {"user", "model"}

\* The sidebar's topic links.
Topics == <<"Budgeting", "Investments", "Taxes", "Goals", "Learn">>

\* The fixed content of the message appended when the advice call fails.
ErrorText == "Sorry, something went wrong. Please try again."

\* Drafts the user types in the textarea (onChange delivers the whole text).
TypedDrafts == {"", " \n", " hi "}

\* Texts getFinancialAdvice resolves with.
ReplyTexts == {"Save.", ErrorText}

\* ------------------------------------------------------- string helpers
\* String.prototype.startsWith
StartsWith(s, prefix) ==
    /\ Len(s) >= Len(prefix)
    /\ SubSeq(s, 1, Len(prefix)) = prefix

\* The characters String.prototype.trim strips (those that can be typed
\* into the textarea).
IsSpace(c) == c \in {" ", "\n", "\t"}

RECURSIVE TrimStart(_)
TrimStart(s) ==
    IF Len(s) = 0 THEN s
    ELSE IF IsSpace(SubSeq(s, 1, 1)) THEN TrimStart(SubSeq(s, 2, Len(s)))
    ELSE s

RECURSIVE TrimEnd(_)
TrimEnd(s) ==
    IF Len(s) = 0 THEN s
    ELSE IF IsSpace(SubSeq(s, Len(s), Len(s))) THEN TrimEnd(SubSeq(s, 1, Len(s) - 1))
    ELSE s

\* String.prototype.trim
Trim(s) == TrimEnd(TrimStart(s))

\* The upper-case letters that occur in Topics, with their lower-case form.
LowerChar(c) ==
    CASE c = "B" -> "b"
      [] c = "I" -> "i"
      [] c = "T" -> "t"
      [] c = "G" -> "g"
      [] c = "L" -> "l"
      [] OTHER -> c

\* String.prototype.toLowerCase
RECURSIVE ToLowerCase(_)
ToLowerCase(s) ==
    IF Len(s) = 0 THEN s
    ELSE LowerChar(SubSeq(s, 1, 1)) \o ToLowerCase(SubSeq(s, 2, Len(s)))

\* ------------------------------------------------------------- messages
\* `${prefix}-${Date.now()}`
MakeId(prefix, t) == prefix \o "-" \o ToString(t)

WelcomeText(profile) ==
    "Great! As a " \o profile
        \o ", I'll tailor my advice for you. How can I help you with your finances today?"

\* Mutant: the welcome message gets the id of an ordinary model message.
WelcomeMessageUnmarked(profile, t) ==
    [id |-> MakeId("model", t), role |-> "model", content |-> WelcomeText(profile)]

WelcomeMessage(profile, t) ==
    [id |-> MakeId("welcome", t), role |-> "model", content |-> WelcomeText(profile)]

UserMessage(text, t) ==
    [id |-> MakeId("user", t), role |-> "user", content |-> Trim(text)]

ModelMessage(text, t) ==
    [id |-> MakeId("model", t), role |-> "model", content |-> text]

ErrorMessage(t) ==
    [id |-> MakeId("error", t), role |-> "model", content |-> ErrorText]

\* updatedMessages.filter(m => !m.id.startsWith('welcome-'))
IsNotWelcome(m) == ~StartsWith(m.id, "welcome-")

\* Mutant: the history is sent as it is, welcome message included.
ApiHistoryUnfiltered(msgs) == msgs

ApiHistory(msgs) == SelectSeq(msgs, IsNotWelcome)

\* The sequence s without its i-th element.
RemoveAt(s, i) == SubSeq(s, 1, i - 1) \o SubSeq(s, i + 1, Len(s))

\* ---------------------------------------------------------------- state
VARIABLES
    userProfile,   \* useState<UserProfile>('none')
    messages,      \* useState<Message[]>([])
    input,         \* useState('')
    isLoading,     \* useState(false)
    pending,       \* the awaited getFinancialAdvice calls, each with the
                   \* arguments it was given and the caller's updatedMessages
    now,           \* the value Date.now() returns
    lastOp,        \* the step that ran last: its name, its argument and
                   \* the transcript length it found
    sentSinceSelect \* whether a send was accepted since the last profile
                   \* selection

vars == <<userProfile, messages, input, isLoading, pending, now, lastOp, sentSinceSelect>>

Op(name, arg) == [op |-> name, arg |-> arg, preLen |-> Len(messages)]

Init ==
    /\ userProfile = "none"
    /\ messages = <<>>
    /\ input = ""
    /\ isLoading = FALSE
    /\ pending = <<>>
    /\ now = 0
    /\ lastOp = [op |-> "init", arg |-> "", preLen |-> 0]
    /\ sentSinceSelect = FALSE

\* -------------------------------------------------------------- actions
\* Time passes: Date.now() never goes backwards.
Tick ==
    /\ now < MaxClock
    /\ now' = now + 1
    /\ lastOp' = Op("tick", "")
    /\ UNCHANGED <<userProfile, messages, input, isLoading, pending, sentSinceSelect>>

\* Mutant: the welcome message is appended to the list instead of
\* replacing it.
SelectProfileAppends(profile) ==
    /\ userProfile = "none"
    /\ userProfile' = profile
    /\ messages' = Append(messages, WelcomeMessage(profile, now))
    /\ lastOp' = Op("selectProfile", profile)
    /\ sentSinceSelect' = FALSE
    /\ UNCHANGED <<input, isLoading, pending, now>>

\* handleProfileSelect, reachable through the profile selector, which is
\* rendered only while no profile is set.
SelectProfile(profile) ==
    /\ userProfile = "none"
    /\ userProfile' = profile
    /\ messages' = <<WelcomeMessage(profile, now)>>
    /\ lastOp' = Op("selectProfile", profile)
    /\ sentSinceSelect' = FALSE
    /\ UNCHANGED <<input, isLoading, pending, now>>

\* Mutant: the button unsets the profile and leaves the messages.
ResetProfileKeepsMessages ==
    /\ userProfile # "none"
    /\ userProfile' = "none"
    /\ lastOp' = Op("resetProfile", "")
    /\ UNCHANGED <<messages, input, isLoading, pending, now, sentSinceSelect>>

\* Mutant: the button clears the draft as well.
ResetProfileClearsInput ==
    /\ userProfile # "none"
    /\ userProfile' = "none"
    /\ messages' = <<>>
    /\ input' = ""
    /\ lastOp' = Op("resetProfile", "")
    /\ UNCHANGED <<isLoading, pending, now, sentSinceSelect>>

\* Mutant: the button also clears the loading flag.
ResetProfileClearsLoading ==
    /\ userProfile # "none"
    /\ userProfile' = "none"
    /\ messages' = <<>>
    /\ isLoading' = FALSE
    /\ lastOp' = Op("resetProfile", "")
    /\ UNCHANGED <<input, pending, now, sentSinceSelect>>

\* The "Change Profile" button of the chat view.
ResetProfile ==
    /\ userProfile # "none"
    /\ userProfile' = "none"
    /\ messages' = <<>>
    /\ lastOp' = Op("resetProfile", "")
    /\ UNCHANGED <<input, isLoading, pending, now, sentSinceSelect>>

\* The textarea's onChange, in the chat view.
SetInput(text) ==
    /\ userProfile # "none"
    /\ input' = text
    /\ lastOp' = Op("setInput", text)
    /\ UNCHANGED <<userProfile, messages, isLoading, pending, now, sentSinceSelect>>

\* A sidebar topic link's onClick, in the chat view.
TopicClick(item) ==
    /\ userProfile # "none"
    /\ input' = "Tell me about " \o ToLowerCase(item)
    /\ lastOp' = Op("topicClick", item)
    /\ UNCHANGED <<userProfile, messages, isLoading, pending, now, sentSinceSelect>>

\* Mutant: the guard does not look at isLoading.
SendRejectedIgnoresLoading == Trim(input) = "" \/ userProfile = "none"

\* Mutant: the guard tests the draft without trimming it.
SendRejectedNoTrim == input = "" \/ isLoading \/ userProfile = "none"

\* The guard of handleSendMessage: true when the handler returns at once.
SendRejected == Trim(input) = "" \/ isLoading \/ userProfile = "none"

\* handleSendMessage up to its await.
HandleSendMessage ==
    IF SendRejected
    THEN /\ lastOp' = Op("sendRejected", input)
         /\ UNCHANGED <<userProfile, messages, input, isLoading, pending, now, sentSinceSelect>>
    ELSE LET updatedMessages == Append(messages, UserMessage(input, now))
         IN /\ Len(messages) + 2 <= MaxMsgs
            /\ messages' = updatedMessages
            /\ input' = ""
            /\ isLoading' = TRUE
            /\ pending' = Append(pending,
                   [apiHistory |-> ApiHistory(updatedMessages),
                    userProfile |-> userProfile,
                    updatedMessages |-> updatedMessages])
            /\ lastOp' = Op("send", input)
            /\ sentSinceSelect' = TRUE
            /\ UNCHANGED <<userProfile, now>>

\* handleSendMessage after its await, when getFinancialAdvice resolved.
AdviceResolved(i, text) ==
    /\ i \in DOMAIN pending
    /\ messages' = Append(messages, ModelMessage(text, now))
    /\ isLoading' = FALSE
    /\ pending' = RemoveAt(pending, i)
    /\ lastOp' = Op("resolved", text)
    /\ UNCHANGED <<userProfile, input, now, sentSinceSelect>>

\* handleSendMessage after its await, when getFinancialAdvice rejected.
AdviceRejected(i) ==
    /\ i \in DOMAIN pending
    /\ messages' = Append(messages, ErrorMessage(now))
    /\ isLoading' = FALSE
    /\ pending' = RemoveAt(pending, i)
    /\ lastOp' = Op("rejected", "")
    /\ UNCHANGED <<userProfile, input, now, sentSinceSelect>>

Next ==
    \/ Tick
    \/ \E profile \in Profiles : SelectProfile(profile)
    \/ ResetProfile
    \/ \E text \in TypedDrafts : SetInput(text)
    \/ \E k \in 1..MaxTopic : k \in DOMAIN Topics /\ TopicClick(Topics[k])
    \/ HandleSendMessage
    \/ \E i \in 1..MaxMsgs, text \in ReplyTexts : AdviceResolved(i, text)
    \/ \E i \in 1..MaxMsgs : AdviceRejected(i)

Spec == Init /\ [][Next]_vars

\* An awaited call settles: the promise of getFinancialAdvice resolves or
\* rejects and the continuation of handleSendMessage runs.
Completion ==
    \E i \in 1..MaxMsgs :
        \/ \E text \in ReplyTexts : AdviceResolved(i, text)
        \/ AdviceRejected(i)

\* The behaviours in which every advice call eventually returns or fails.
\* The user's events are under no obligation to happen.
FairSpec == Spec /\ WF_vars(Completion)

\* ------------------------------------------------------- claim helpers
\* The draft is empty or consists of white space only.
IsBlank(s) == \A k \in 1..Len(s) : SubSeq(s, k, k) \in {" ", "\n", "\t"}

\* The id carries the welcome marker.
WelcomeMarked(m) == Len(m.id) >= 8 /\ SubSeq(m.id, 1, 8) = "welcome-"

\* The last element of a non-empty sequence.
Last(s) == s[Len(s)]

\* ------------------------------------------------------------------- C1
\* C1: when an advice call resolves, the message list is the list the send
\* left behind (the list before the send plus the user message) with one
\* model message appended whose content is the reply text, whatever UI
\* events happened while the call was outstanding.
C1_ReplyAppendsToSentList ==
    [][\A i \in DOMAIN pending :
          (lastOp'.op = "resolved" /\ pending' = RemoveAt(pending, i))
              => /\ Len(messages') = Len(pending[i].updatedMessages) + 1
                 /\ SubSeq(messages', 1, Len(messages') - 1) = pending[i].updatedMessages
                 /\ Last(pending[i].updatedMessages).role = "user"
                 /\ Last(messages').role = "model"
                 /\ Last(messages').content = lastOp'.arg]_vars

\* ------------------------------------------------------------------- C2
\* C2: when an advice call fails, the message list is the list the send
\* left behind (the list before the send plus the user message) with the
\* fixed apology appended as a model message, and loading is false.
C2_FailureAppendsApology ==
    [][\A i \in DOMAIN pending :
          (lastOp'.op = "rejected" /\ pending' = RemoveAt(pending, i))
              => /\ Len(messages') = Len(pending[i].updatedMessages) + 1
                 /\ SubSeq(messages', 1, Len(messages') - 1) = pending[i].updatedMessages
                 /\ Last(pending[i].updatedMessages).role = "user"
                 /\ Last(messages').role = "model"
                 /\ Last(messages').content = "Sorry, something went wrong. Please try again."
                 /\ isLoading' = FALSE]_vars

\* ------------------------------------------------------------------- C3
\* C3: at most one advice call is outstanding in every reachable state.
C3_AtMostOneOutstanding == Len(pending) <= 1

\* A send was attempted and rejected while a call is outstanding, after the
\* profile was reset and selected anew during that call (the transcript
\* holds the new welcome message only).
C3_Witness ==
    /\ lastOp.op = "sendRejected"
    /\ Len(pending) = 1
    /\ ~IsBlank(input)
    /\ userProfile # "none"
    /\ Len(messages) = 1
    /\ WelcomeMarked(messages[1])

\* ------------------------------------------------------------------- C4
\* C4: a send with a blank draft, or while loading, or with no profile set
\* changes neither the messages nor input, loading, profile, and calls the
\* advice client not at all.
C4_RejectedSendIsNoOp ==
    [][(lastOp'.op \in {"send", "sendRejected"}
            /\ (IsBlank(input) \/ isLoading \/ userProfile = "none"))
          => UNCHANGED <<messages, input, isLoading, userProfile, pending>>]_vars

\* A send of a non-empty draft of white space was rejected in the chat view
\* with no call outstanding.
C4_Witness ==
    /\ lastOp.op = "sendRejected"
    /\ input # ""
    /\ IsBlank(input)
    /\ ~isLoading
    /\ userProfile # "none"
    /\ pending = <<>>

\* ------------------------------------------------------------------- C5
\* C5: no history handed to the advice client contains a message whose id
\* starts with "welcome-".
C5_HistoryHasNoWelcome ==
    \A i \in DOMAIN pending :
        \A k \in DOMAIN pending[i].apiHistory :
            ~WelcomeMarked(pending[i].apiHistory[k])

\* A call is outstanding whose sender's list began with the welcome message.
C5_Witness ==
    /\ Len(pending) = 1
    /\ WelcomeMarked(pending[1].updatedMessages[1])
    /\ Len(pending[1].apiHistory) >= 1

\* ------------------------------------------------------------------- C6
\* C6: an accepted send calls the advice client with the list before the
\* send without its welcome-marked messages, in order, followed by the new
\* user message, and with the profile selected at the send.
C6_CallArguments ==
    [][lastOp'.op = "send"
          => /\ Len(pending') = Len(pending) + 1
             /\ LET call == Last(pending')
                    kept == SelectSeq(messages, LAMBDA m : ~WelcomeMarked(m))
                IN /\ Len(call.apiHistory) = Len(kept) + 1
                   /\ SubSeq(call.apiHistory, 1, Len(kept)) = kept
                   /\ Last(call.apiHistory) = Last(messages')
                   /\ Last(call.apiHistory).role = "user"
                   /\ messages' = Append(messages, Last(messages'))
                   /\ call.userProfile = userProfile
                   /\ call.userProfile = userProfile']_vars

\* A send was accepted from a list that held the welcome message and
\* earlier messages of the conversation.
C6_Witness ==
    /\ lastOp.op = "send"
    /\ lastOp.preLen >= 3
    /\ WelcomeMarked(messages[1])
    /\ Len(pending) = 1
    /\ Len(pending[1].apiHistory) = Len(messages) - 1
    /\ pending[1].userProfile \in Profiles

\* ------------------------------------------------------------------- C7
\* C7: the first send accepted after a profile selection calls the advice
\* client with a history of exactly one entry, the user message carrying
\* the draft (as sent, that is trimmed), and with the selected profile,
\* whatever happened before that selection.
C7_FirstSendHistoryIsOneEntry ==
    [][(lastOp'.op = "send" /\ ~sentSinceSelect)
          => /\ Len(pending') >= 1
             /\ Len(Last(pending').apiHistory) = 1
             /\ Last(pending').apiHistory[1].role = "user"
             /\ Last(pending').apiHistory[1].content = Trim(input)
             /\ Last(pending').userProfile = userProfile]_vars

\* ------------------------------------------------------------------- C8
\* C8: right after selectProfile(p) the profile is p and the message list
\* is exactly one model message with a welcome-marked id and the welcome
\* text for p, also when the list was not empty before.
C8_SelectYieldsWelcomeOnly ==
    lastOp.op = "selectProfile"
        => /\ userProfile = lastOp.arg
           /\ userProfile \in {"student", "professional"}
           /\ Len(messages) = 1
           /\ messages[1].role = "model"
           /\ WelcomeMarked(messages[1])
           /\ messages[1].content
                = "Great! As a " \o lastOp.arg
                    \o ", I'll tailor my advice for you. How can I help you with your finances today?"

\* A profile was selected in a state whose message list was not empty.
C8_Witness ==
    /\ lastOp.op = "selectProfile"
    /\ lastOp.preLen > 0
    /\ Len(messages) = 1
    /\ userProfile = "professional"

\* ------------------------------------------------------------------- C9
\* The messages of a list, as a set.
Range(s) == {s[k] : k \in DOMAIN s}

\* C9 as stated: when the profile changes, no message from before is in
\* the list and the draft is the fresh empty text.
C9_ProfileChangeRecreatesListAndDraft ==
    [][userProfile' # userProfile
          => /\ Range(messages') \cap Range(messages) = {}
             /\ input' = ""]_vars

\* C9 amended: when the profile changes, no message from before is in the
\* list, and the draft text is kept as it was.
C9_ProfileChangeRecreatesListKeepsDraft ==
    [][userProfile' # userProfile
          => /\ Range(messages') \cap Range(messages) = {}
             /\ input' = input]_vars

\* The profile was reset over a list of messages while a draft was typed.
C9_Witness ==
    /\ lastOp.op = "resetProfile"
    /\ lastOp.preLen >= 2
    /\ messages = <<>>
    /\ ~IsBlank(input)

\* ------------------------------------------------------------------ C10
\* C10: right after resetProfile the profile is "none" and the message
\* list is empty, also while a call is outstanding.
C10_ResetClearsProfileAndList ==
    lastOp.op = "resetProfile" => (userProfile = "none" /\ messages = <<>>)

\* The profile was reset over a list of messages while a call was
\* outstanding.
C10_Witness ==
    /\ lastOp.op = "resetProfile"
    /\ lastOp.preLen >= 2
    /\ Len(pending) = 1
    /\ isLoading
    /\ userProfile = "none"
    /\ messages = <<>>

\* ------------------------------------------------------------------ C11
\* C11: if every advice call eventually returns or fails, every accepted
\* send is eventually followed by a state in which loading is false and the
\* message list ends with a user message followed by a model message (the
\* answer or the apology appended after the send's user message).
C11_SendLeadsToAnswer ==
    (lastOp.op = "send")
        ~> (/\ ~isLoading
            /\ Len(messages) >= 2
            /\ messages[Len(messages) - 1].role = "user"
            /\ messages[Len(messages)].role = "model")

\* ------------------------------------------------------------------ C12
\* C12: the ids of the messages in the list are pairwise distinct, with a
\* clock that never goes backwards but need not advance between events.
C12_IdsDistinct ==
    \A i, j \in DOMAIN messages : i # j => messages[i].id # messages[j].id

\* ------------------------------------------------------------------ C13
\* C13: loading is true exactly when an advice call is outstanding; only an
\* accepted send sets it and only a completion clears it, and a send made
\* while it is true is rejected.
C13_LoadingIffOutstanding ==
    [][/\ isLoading <=> (pending # <<>>)
       /\ isLoading' <=> (pending' # <<>>)
       /\ (~isLoading /\ isLoading') => lastOp'.op = "send"
       /\ (isLoading /\ ~isLoading') => lastOp'.op \in {"resolved", "rejected"}
       /\ (isLoading /\ lastOp'.op \in {"send", "sendRejected"})
            => (lastOp'.op = "sendRejected" /\ pending' = pending)]_vars

\* A profile was selected while a call, sent before the profile was reset,
\* is still outstanding and loading is still true.
C13_Witness ==
    /\ lastOp.op = "selectProfile"
    /\ isLoading
    /\ Len(pending) = 1
    /\ pending[1].updatedMessages # messages

\* ------------------------------------------------------------------ C14
\* C14: whenever the profile is "none" the message list is empty, also
\* after a call that was outstanding at the reset has completed.
C14_NoProfileNoMessages == userProfile = "none" => messages = <<>>

\* ------------------------------------------------------------------ C15
\* C15: whenever a profile is selected the message list is not empty, its
\* first message is the welcome message for that profile, and no later
\* message has a welcome-marked id.
C15_WelcomeFirstAndOnlyFirst ==
    userProfile \in {"student", "professional"}
        => /\ Len(messages) >= 1
           /\ WelcomeMarked(messages[1])
           /\ messages[1].role = "model"
           /\ messages[1].content
                = "Great! As a " \o userProfile
                    \o ", I'll tailor my advice for you. How can I help you with your finances today?"
           /\ \A k \in 2..Len(messages) : ~WelcomeMarked(messages[k])

\* A profile is selected and the list holds the welcome message followed by
\* the answer to a call of an earlier conversation and a new user message.
C15_Witness ==
    /\ userProfile = "professional"
    /\ Len(messages) >= 3
    /\ messages[2].role = "model"
    /\ messages[3].role = "user"

\* ------------------------------------------------------------------ C16
\* Neighbouring elements of the sequence have different roles.
Alternates(s) == \A k \in 1..(Len(s) - 1) : s[k].role # s[k + 1].role

\* C16: no two consecutive messages of the list have the same role, and
\* every history sent to the advice client starts with a user message and
\* alternates roles.
C16_RolesAlternate ==
    /\ Alternates(messages)
    /\ \A i \in DOMAIN pending :
          /\ pending[i].apiHistory[1].role = "user"
          /\ Alternates(pending[i].apiHistory)
====
